---- MODULE Spec2Model ----
(***************************************************************************)
(* Model of the real-time detection session of EPP_DETECCION:              *)
(*   - the Dashboard component (front/src/components/Dashboard.tsx): the   *)
(*     compliance gate (isPaused / cameraActive), the capture scheduler    *)
(*     (setTimeout chains started by startDetection and handleResume), the *)
(*     latency window and the adaptive interval, the detection history;    *)
(*   - the PPEWebSocket transport (front/src/services/ppeService.ts):      *)
(*     sockets, reconnect ladder, keepalive and stability timers.          *)
(*                                                                         *)
(* JavaScript runs every handler to completion, so each handler is one     *)
(* atomic action.  React state set by a handler (setIsPaused, ...) is      *)
(* taken to be rendered before the next event is handled, so the state     *)
(* variables hold the rendered values and the button offers the handler    *)
(* chosen by the latest render.  isDetecting always equals                 *)
(* isProcessingRef.current and is not kept as a separate variable.         *)
(***************************************************************************)
EXTENDS Integers, Sequences, FiniteSets, TLC

(* ------------------------------ bounds -------------------------------- *)
\* sockets that exist at the same time (live or still referenced)
MaxSockets == 2
\* reconnect timers pending at the same time
MaxReconnTimers == 2
\* consecutive reconnect attempts explored before the counter is capped
MaxAttempts == 5
\* detection requests sent and not yet answered or dropped
MaxInflight == 2
\* the largest config.history.maxRecords explored
MaxRecords == 3
\* config.history.maxRecords of the monitoring sessions
SessionRecords == 2
\* verdicts recorded in the sessions that explore every capacity
MaxRecorded == 3
\* how often two consecutive latency samples in the window may differ
MaxLatencyChanges == 1
\* consecutive failed connections explored within a monitoring session
MaxSessionAttempts == 1
\* latency samples in the window up to which the monitoring session is
\* explored (the window itself holds WindowCap)
MaxSessionSamples == 6
\* detections of one class in a Roboflow response
MaxPerClass == 2
\* predictions in one Roboflow response
MaxDetections == 10

(* ------------------------- program constants -------------------------- *)
DefaultInterval == 1500
WindowCap == 10
MinSamples == 5
FastLimit == 300
SlowLimit == 600
IntervalFast == 1000
IntervalMid == 1500
IntervalSlow == 2500
reconnectDelays == <<2000, 5000, 10000, 30000>>

(* ------------------------------ inputs -------------------------------- *)
\* round-trip latencies (Date.now() - lastSendTimeRef.current), in ms
Latencies == {200, 600}
\* a decoded backend message handed to handleDetectionResponse:
\*   ppe_status   "absent" | "complete" (epp_completo true) | "incomplete"
\*   has_person   "true" | "false" | "absent" (has_person?: boolean,
\*                ppeService.ts 33: the field may be missing)
\*   is_compliant "true" | "false" | "absent" (the field is missing)
Responses ==
  [ppe_status : {"absent", "complete", "incomplete"},
   has_person : {"true", "false", "absent"},
   is_compliant : {"true", "false", "absent"}]
\* what cameraFeedRef.current.handleCapture() returns: no image, an image,
\* an image above the 5000 KB ceiling of PPEWebSocket.send
Images == {"none", "ok", "big"}
\* the close codes ws.onclose names (157-172), and one it does not
CloseCodes == {1000, 1001, 1005, 1006, 1011, 4000}
\* what event.data of ws.onmessage holds: a message whose type field is
\* "connected", "processing", "ping" or "pong", a message of any other kind
\* without ppe_status ("other"), or text that JSON.parse rejects
MessageTypes == {"connected", "processing", "ping", "pong", "other", "unparsable"}

VARIABLES
  \* ---- Dashboard
  mounted,            \* "init" before the mount effect ran, then "mounted",
                      \* "unmounted" after its cleanup
  cameraActive,       \* useState cameraActive
  isPaused,           \* useState isPaused
  isSafetyModalOpen,  \* useState isSafetyModalOpen
  isConnected,        \* useState isConnected (set by the transport callbacks)
  isProcessing,       \* isProcessingRef.current (the in-flight flag)
  latencyHistory,     \* latencyHistoryRef.current
  adaptiveInterval,   \* adaptiveIntervalRef.current
  detectionRecords,   \* useState detectionRecords, newest first
  detTimers,          \* pending capture timers: [chain, isPaused, delay]
  detRef,             \* index in detTimers that detectionIntervalRef.current
                      \* names, 0 when it is null or names a timer that fired
  alertActive,        \* alertService.trigger was called and reset() not since
  ppeStatus,          \* useState ppeStatus: "neutral" (every item false,
                      \* the initial object and the one an empty scene
                      \* sets) or the ppe_status of the last verdict
  hasDetection,       \* useState hasDetection: the panel shows a finding
  maxRecords,         \* config.history.maxRecords (useCameraConfig), fixed
                      \* for the lifetime of the Dashboard
  \* ---- PPEWebSocket
  socks,              \* readyState of every socket object created
  ws,                 \* this.ws: a socket index, 0 for null
  reconnectAttempts,
  currentDelayIndex,  \* 0-based, as in the source
  isManualDisconnect,
  heartbeat,          \* heartbeatInterval is set
  stableTimer,        \* stableConnectionTimer is pending
  reconnTimers,       \* delays of the pending setTimeout(() => connect())
  \* ---- network
  inflight,           \* requests transmitted and not answered: [sock, cur]
  \* ---- observation
  lastVerdict,        \* how the last step classified a response (Verdict),
                      \* "none" when the last step handled no response
  stableWindow,       \* "elapsed" once the stability timer fired on an open
                      \* connection, "retried" once a send() that raised
                      \* scheduled a reconnect after that, "closed" once a
                      \* socket closed after either, "none" otherwise
  \* ---- detection service (unnamed/part_000)
  groupedDetections,  \* processDetections: items pushed per className
  totalDetections,    \* processDetections: detectionsArray.length, counted
                      \* as the forEach goes through the array
  det,                \* the label of the detection being normalized
  className,          \* the class its label was normalized to
  lastIO              \* the keepalive frame the last step transmitted ("ping",
                      \* "pong") or the fault it logged ("rejected",
                      \* "unparsable", "alert-error", "pong-error",
                      \* "connect-error"), "none" otherwise

dashVars ==
  <<mounted, cameraActive, isPaused, isSafetyModalOpen, isProcessing,
    latencyHistory, adaptiveInterval, detectionRecords, detTimers, detRef,
    alertActive, ppeStatus, hasDetection>>
wsVars ==
  <<socks, ws, reconnectAttempts, currentDelayIndex, isManualDisconnect,
    heartbeat, stableTimer, reconnTimers>>
aggVars == <<groupedDetections, totalDetections, det, className>>
vars ==
  <<dashVars, maxRecords, isConnected, wsVars, inflight, lastVerdict,
    stableWindow, lastIO, aggVars>>

(* ------------------------------ helpers ------------------------------- *)
RemoveAt(s, i) == SubSeq(s, 1, i - 1) \o SubSeq(s, i + 1, Len(s))

RECURSIVE Sum(_)
Sum(s) == IF s = <<>> THEN 0 ELSE Head(s) + Sum(Tail(s))

RECURSIVE Changes(_)
Changes(s) ==
  IF Len(s) < 2 THEN 0
  ELSE (IF s[1] # s[2] THEN 1 ELSE 0) + Changes(Tail(s))

Min(a, b) == IF a < b THEN a ELSE b

(* ----------------- adaptive interval (Dashboard.tsx 208-225) ---------- *)
\* mutant of PushLatency: a full window drops the new sample
PushLatencyDropsNewest(hist, latency) ==
  LET h == Append(hist, latency)
  IN IF Len(h) > WindowCap THEN SubSeq(h, 1, WindowCap) ELSE h

\* latencyHistoryRef.current.push(latency); if (length > 10) shift()
PushLatency(hist, latency) ==
  LET h == Append(hist, latency)
  IN IF Len(h) > WindowCap THEN Tail(h) ELSE h

\* mutant of TierOf: the tier limits taken inclusively (<= instead of <)
TierOfInclusive(hist) ==
  IF Sum(hist) <= FastLimit * Len(hist) THEN IntervalFast
  ELSE IF Sum(hist) <= SlowLimit * Len(hist) THEN IntervalMid
  ELSE IntervalSlow

\* avgLatency = sum / length compared with 300 and 600.  The samples are
\* integers, so avg < L  <=>  sum < L * length, which keeps the comparison
\* exact at the boundaries.
TierOf(hist) ==
  IF Sum(hist) < FastLimit * Len(hist) THEN IntervalFast
  ELSE IF Sum(hist) < SlowLimit * Len(hist) THEN IntervalMid
  ELSE IntervalSlow

\* mutant of AdjustInterval: the tiering starts one sample early
AdjustIntervalEarly(hist, current) ==
  IF Len(hist) >= MinSamples - 1 THEN TierOf(hist) ELSE current

\* the interval after a sample was pushed: recomputed only from 5 samples on
AdjustInterval(hist, current) ==
  IF Len(hist) >= MinSamples THEN TierOf(hist) ELSE current

(* ----------------- history (Dashboard.tsx 132-171, 249-270) ----------- *)
crearRegistroDesdeDeteccion(data) ==
  [estado |-> IF data.is_compliant = "true" THEN "Completo" ELSE "Incompleto",
   epp_completo |-> (data.ppe_status = "complete")]

\* mutant of PrependRecord: the old records are cut to max, not to max - 1
PrependRecordSliceMax(prev, rec) ==
  <<rec>> \o SubSeq(prev, 1, Min(Len(prev), maxRecords))

\* one setDetectionRecords updater: [newRecord, ...prev.slice(0, max - 1)]
PrependRecord(prev, rec) ==
  <<rec>> \o SubSeq(prev, 1, Min(Len(prev), maxRecords - 1))

\* handleDetectionResponse queues the same updater twice (251 and 262)
AppendHistory(prev, rec) == PrependRecord(PrependRecord(prev, rec), rec)

\* the records crearRegistroDesdeDeteccion builds
Records == [estado : {"Completo", "Incompleto"}, epp_completo : BOOLEAN]

\* what localStorage may hold under 'epp-detection-history': nothing, or a
\* list a previous session saved, possibly under a larger maxRecords
StoredHistories(max) ==
  UNION {[1..n -> Records] : n \in 0..(max + 1)}

\* the initializer of detectionRecords (56-68):
\* parsed.slice(0, config.history.maxRecords)
LoadHistory(stored, max) == SubSeq(stored, 1, Min(Len(stored), max))

(* ----------------- capture timers ------------------------------------- *)
\* detectionIntervalRef.current = window.setTimeout(cb, adaptiveInterval)
\*   chain    which closure runs: startDetection's or handleResume's
\*   isPaused the isPaused value captured by startDetection's closure
Timer(chain, paused, delay) ==
  [chain |-> chain, isPaused |-> paused, delay |-> delay]

\* mutant of Cleared: the pending timer is not cancelled
ClearedNothing(timers, ref) == timers

\* clearTimeout(detectionIntervalRef.current): the timers left pending
Cleared(timers, ref) == IF ref # 0 THEN RemoveAt(timers, ref) ELSE timers

\* where detectionIntervalRef points once timer i has fired
RefAfterFire(ref, i) ==
  IF ref = i THEN 0 ELSE IF ref > i THEN ref - 1 ELSE ref

(* ----------------- PPEWebSocket (ppeService.ts) ----------------------- *)
SockIds == 1..MaxSockets

\* isConnected(): this.ws !== null && readyState === OPEN
WsIsConnected == ws # 0 /\ socks[ws] = "OPEN"

\* the socket table once this.ws is overwritten: a socket that is closed and
\* no longer referenced delivers no further event and is dropped
Released(table, s) ==
  IF s # 0 /\ table[s] = "CLOSED" THEN [table EXCEPT ![s] = "FREE"] ELSE table

FreeSlots(table) == {s \in SockIds : table[s] = "FREE"}
FirstFree(table) ==
  CHOOSE s \in FreeSlots(table) : \A r \in FreeSlots(table) : s <= r

\* connect() (94-197): isManualDisconnect = false; this.ws = new
\* WebSocket(url).  refused: the constructor raised an exception; the catch
\* (194-196) logs it (the caller's "connect-error"), this.ws keeps its value
\* and no socket exists
Connect(refused) ==
  IF refused
  THEN /\ isManualDisconnect' = FALSE
       /\ UNCHANGED <<socks, ws>>
  ELSE LET table == Released(socks, ws)
       IN /\ FreeSlots(table) # {}
          /\ isManualDisconnect' = FALSE
          /\ socks' = [table EXCEPT ![FirstFree(table)] = "CONNECTING"]
          /\ ws' = FirstFree(table)

\* mutant of AttemptReconnect: the ladder never advances
AttemptReconnectStuck ==
  /\ reconnectAttempts < MaxAttempts
  /\ Len(reconnTimers) < MaxReconnTimers
  /\ reconnectAttempts' = reconnectAttempts + 1
  /\ currentDelayIndex' = currentDelayIndex
  /\ reconnTimers' = Append(reconnTimers, reconnectDelays[currentDelayIndex + 1])

\* attemptReconnect(): count, take the ladder delay, advance, set the timer
AttemptReconnect ==
  /\ reconnectAttempts < MaxAttempts
  /\ Len(reconnTimers) < MaxReconnTimers
  /\ reconnectAttempts' = reconnectAttempts + 1
  /\ currentDelayIndex' =
       IF currentDelayIndex < Len(reconnectDelays) - 1
       THEN currentDelayIndex + 1 ELSE currentDelayIndex
  /\ reconnTimers' = Append(reconnTimers, reconnectDelays[currentDelayIndex + 1])

\* the requests outstanding once one more was transmitted on this.ws
Transmitted(reqs) ==
  Append([k \in 1..Len(reqs) |-> [reqs[k] EXCEPT !.cur = FALSE]],
         [sock |-> ws, cur |-> TRUE])

\* mutant of Rejected: no size ceiling
RejectedNever(image) == FALSE

\* send() refuses the frame: the connection is open and the image is above
\* the ceiling (233-236)
Rejected(image) == WsIsConnected /\ image = "big"

\* send(imageData, confidence); throws: this.ws.send raised an exception;
\* refused: the constructor raised one in the connect() of 204 or 219
Send(image, throws, refused) ==
  IF ws = 0 \/ (ws # 0 /\ socks[ws] \in {"CLOSING", "CLOSED"})
  THEN /\ IF ~isManualDisconnect
          THEN Connect(refused)
          ELSE UNCHANGED <<socks, ws, isManualDisconnect>>
       /\ UNCHANGED <<reconnectAttempts, currentDelayIndex, heartbeat,
                      stableTimer, reconnTimers, inflight>>
  ELSE IF socks[ws] = "CONNECTING" \/ Rejected(image)
  THEN UNCHANGED <<wsVars, inflight>>
  ELSE IF throws
  THEN /\ IF ~isManualDisconnect
          THEN AttemptReconnect
          ELSE UNCHANGED <<reconnectAttempts, currentDelayIndex, reconnTimers>>
       /\ UNCHANGED <<socks, ws, isManualDisconnect, heartbeat, stableTimer,
                      inflight>>
  ELSE /\ Len(inflight) < MaxInflight
       /\ inflight' = Transmitted(inflight)
       /\ UNCHANGED wsVars

\* send() calls connect(): this.ws is null, closing or closed and the
\* disconnect was not manual (203-205, 218-220)
SendConnects ==
  /\ ws = 0 \/ socks[ws] \in {"CLOSING", "CLOSED"}
  /\ ~isManualDisconnect

\* stableWindow after a send(); failed: ws.send raised and the catch
\* (239-245) ran
AfterSendFault(failed) ==
  IF failed /\ ~isManualDisconnect /\ stableWindow = "elapsed"
  THEN "retried" ELSE stableWindow

\* disconnect()
Disconnect ==
  /\ isManualDisconnect' = TRUE
  /\ heartbeat' = FALSE
  /\ stableTimer' = FALSE
  /\ socks' = IF ws = 0 THEN socks
              ELSE IF socks[ws] \in {"OPEN", "CONNECTING"}
              THEN [socks EXCEPT ![ws] = "CLOSING"]
              ELSE Released(socks, ws)
  /\ ws' = 0
  /\ reconnectAttempts' = 0
  /\ currentDelayIndex' = 0
  /\ UNCHANGED reconnTimers

(* ----------------- transport events ----------------------------------- *)
\* useEffect, after 500 ms: wsRef.current = new PPEWebSocket(...); connect()
MountEffect(refused) ==
  /\ mounted = "init"
  /\ mounted' = "mounted"
  /\ Connect(refused)
  /\ UNCHANGED <<cameraActive, isPaused, isSafetyModalOpen, isProcessing,
                 latencyHistory, adaptiveInterval, detectionRecords, detTimers,
                 detRef, alertActive, ppeStatus, hasDetection, isConnected,
                 reconnectAttempts, currentDelayIndex, heartbeat, stableTimer,
                 reconnTimers, inflight>>
  /\ UNCHANGED <<aggVars, maxRecords, stableWindow>>
  /\ lastVerdict' = "none"
  /\ lastIO' = IF refused THEN "connect-error" ELSE "none"

\* mutant of OnOpen: a successful open puts the ladder back on its first step
OnOpenResetsLadder(s) ==
  /\ socks[s] = "CONNECTING"
  /\ socks' = [socks EXCEPT ![s] = "OPEN"]
  /\ heartbeat' = TRUE
  /\ stableTimer' = TRUE
  /\ isConnected' = TRUE
  /\ reconnectAttempts' = 0
  /\ currentDelayIndex' = 0
  /\ UNCHANGED <<dashVars, ws, isManualDisconnect, reconnTimers, inflight>>
  /\ UNCHANGED <<aggVars, maxRecords>>
  /\ stableWindow' = "none"
  /\ lastVerdict' = "none"
  /\ lastIO' = "none"

\* ws.onopen of socket s; onConnectCallback is setIsConnected(true)
OnOpen(s) ==
  /\ socks[s] = "CONNECTING"
  /\ socks' = [socks EXCEPT ![s] = "OPEN"]
  /\ heartbeat' = TRUE
  /\ stableTimer' = TRUE
  /\ isConnected' = TRUE
  /\ UNCHANGED <<dashVars, ws, reconnectAttempts, currentDelayIndex,
                 isManualDisconnect, reconnTimers, inflight>>
  /\ UNCHANGED <<aggVars, maxRecords>>
  /\ stableWindow' = "none"
  /\ lastVerdict' = "none"
  /\ lastIO' = "none"

\* mutant of OnError: the error callback also pauses the session
OnErrorPauses(s) ==
  /\ socks[s] \in {"CONNECTING", "OPEN"}
  /\ socks' = [socks EXCEPT ![s] = "CLOSING"]
  /\ isConnected' = FALSE
  /\ isPaused' = TRUE
  /\ UNCHANGED <<mounted, cameraActive, isSafetyModalOpen, isProcessing,
                 latencyHistory, adaptiveInterval, detectionRecords,
                 detTimers, detRef, alertActive, ppeStatus, hasDetection>>
  /\ UNCHANGED <<ws, reconnectAttempts, currentDelayIndex,
                 isManualDisconnect, heartbeat, stableTimer, reconnTimers,
                 inflight>>
  /\ UNCHANGED <<aggVars, maxRecords, stableWindow>>
  /\ lastVerdict' = "none"
  /\ lastIO' = "none"

\* ws.onerror of socket s: the connection failed, its close event follows;
\* onErrorCallback is setIsConnected(false)
OnError(s) ==
  /\ socks[s] \in {"CONNECTING", "OPEN"}
  /\ socks' = [socks EXCEPT ![s] = "CLOSING"]
  /\ isConnected' = FALSE
  /\ UNCHANGED <<dashVars, ws, reconnectAttempts, currentDelayIndex,
                 isManualDisconnect, heartbeat, stableTimer, reconnTimers,
                 inflight>>
  /\ UNCHANGED <<aggVars, maxRecords, stableWindow>>
  /\ lastVerdict' = "none"
  /\ lastIO' = "none"

\* if (!this.isManualDisconnect): the close code only picks the logged text
ShouldReconnect(code) == ~isManualDisconnect

\* ws.onclose of socket s with close code `code`; onDisconnectCallback is
\* setIsConnected(false).  Requests sent on s are never answered.
OnClose(s, code) ==
  /\ socks[s] \in {"CONNECTING", "OPEN", "CLOSING"}
  /\ socks' = [socks EXCEPT ![s] = IF s = ws THEN "CLOSED" ELSE "FREE"]
  /\ heartbeat' = FALSE
  /\ stableTimer' = FALSE
  /\ isConnected' = FALSE
  /\ IF ShouldReconnect(code)
     THEN AttemptReconnect
     ELSE UNCHANGED <<reconnectAttempts, currentDelayIndex, reconnTimers>>
  /\ inflight' = SelectSeq(inflight, LAMBDA r : r.sock # s)
  /\ UNCHANGED <<dashVars, ws, isManualDisconnect>>
  /\ UNCHANGED <<aggVars, maxRecords>>
  /\ stableWindow' = IF stableWindow \in {"elapsed", "retried"}
                     THEN "closed" ELSE "none"
  /\ lastVerdict' = "none"
  /\ lastIO' = "none"

\* a timer set by attemptReconnect fires: this.connect()
ReconnectTimerFire(i, refused) ==
  /\ i \in 1..Len(reconnTimers)
  /\ reconnTimers' = RemoveAt(reconnTimers, i)
  /\ Connect(refused)
  /\ UNCHANGED <<dashVars, isConnected, reconnectAttempts, currentDelayIndex,
                 heartbeat, stableTimer, inflight>>
  /\ UNCHANGED <<aggVars, maxRecords, stableWindow>>
  /\ lastVerdict' = "none"
  /\ lastIO' = IF refused THEN "connect-error" ELSE "none"

\* mutant of StableTimerFire: only the attempt counter is reset
StableTimerKeepsLadder ==
  /\ stableTimer
  /\ stableTimer' = FALSE
  /\ reconnectAttempts' = 0
  /\ UNCHANGED <<dashVars, isConnected, socks, ws, isManualDisconnect,
                 heartbeat, reconnTimers, inflight, currentDelayIndex>>
  /\ UNCHANGED <<aggVars, maxRecords>>
  /\ stableWindow' = IF \E s \in SockIds : socks[s] = "OPEN"
                     THEN "elapsed" ELSE "none"
  /\ lastVerdict' = "none"
  /\ lastIO' = "none"

\* the stability timer fires after 5 minutes: the backoff is reset
StableTimerFire ==
  /\ stableTimer
  /\ stableTimer' = FALSE
  /\ reconnectAttempts' = 0
  /\ currentDelayIndex' = 0
  /\ UNCHANGED <<dashVars, isConnected, socks, ws, isManualDisconnect,
                 heartbeat, reconnTimers, inflight>>
  /\ UNCHANGED <<aggVars, maxRecords>>
  /\ stableWindow' = IF \E s \in SockIds : socks[s] = "OPEN"
                     THEN "elapsed" ELSE "none"
  /\ lastVerdict' = "none"
  /\ lastIO' = "none"

\* the keepalive interval ticks (startHeartbeat's callback); throws: the
\* ws.send of the ping raised an exception; refused: so did the constructor
\* in the connect() of the catch (300)
HeartbeatFire(throws, refused) ==
  /\ heartbeat
  /\ IF WsIsConnected /\ throws
     THEN Connect(refused)
     ELSE UNCHANGED <<socks, ws, isManualDisconnect>>
  /\ UNCHANGED <<dashVars, isConnected, reconnectAttempts, currentDelayIndex,
                 heartbeat, stableTimer, reconnTimers, inflight>>
  /\ UNCHANGED <<aggVars, maxRecords, stableWindow>>
  /\ lastVerdict' = "none"
  /\ lastIO' = IF WsIsConnected /\ ~throws THEN "ping"
               ELSE IF WsIsConnected /\ refused THEN "connect-error"
               ELSE "none"

\* what ws.onmessage does with a message (114-144): "drop" it in the catch
\* of JSON.parse, "consume" it, answer with a "pong", or "forward" it to
\* onMessageCallback
Dispatch(type) ==
  IF type = "unparsable" THEN "drop"
  ELSE IF type \in {"connected", "processing", "pong"} THEN "consume"
  ELSE IF type = "ping" THEN "pong"
  ELSE "forward"

\* ws.onmessage of socket s for a message that answers no request.  A
\* forwarded one reaches handleDetectionResponse without ppe_status and
\* takes its invalid branch (180-185); sendPong writes to this.ws.
\* throws: the ws.send of the pong raised an exception, which sendPong's
\* catch (318-320) logs ("pong-error"): nothing is transmitted
OnMessage(s, type, throws) ==
  /\ socks[s] = "OPEN"
  /\ IF Dispatch(type) = "forward"
     THEN /\ isProcessing' = FALSE
          /\ lastVerdict' = "invalid"
     ELSE /\ UNCHANGED isProcessing
          /\ lastVerdict' = "none"
  /\ UNCHANGED <<aggVars, maxRecords, stableWindow>>
  /\ lastIO' = IF Dispatch(type) = "pong" /\ WsIsConnected
               THEN IF throws THEN "pong-error" ELSE "pong"
               ELSE IF Dispatch(type) = "drop" THEN "unparsable"
               ELSE "none"
  /\ UNCHANGED <<mounted, cameraActive, isPaused, isSafetyModalOpen,
                 latencyHistory, adaptiveInterval, detectionRecords, detTimers,
                 detRef, alertActive, ppeStatus, hasDetection, isConnected, wsVars, inflight>>

\* the backend's answer to outstanding request k is text JSON.parse
\* rejects: ws.onmessage logs it in its catch (140-143) and nothing is
\* passed on
GarbledResponse(k) ==
  /\ k \in 1..Len(inflight)
  /\ socks[inflight[k].sock] = "OPEN"
  /\ inflight' = RemoveAt(inflight, k)
  /\ UNCHANGED <<dashVars, isConnected, wsVars>>
  /\ UNCHANGED <<aggVars, maxRecords, stableWindow>>
  /\ lastVerdict' = "none"
  /\ lastIO' = "unparsable"

(* ----------------- Dashboard handlers --------------------------------- *)
\* startDetection, offered by the button when !isPaused && !cameraActive
\* and enabled when isConnected
StartDetection ==
  /\ mounted = "mounted"
  /\ ~isPaused /\ ~cameraActive /\ isConnected
  /\ IF ~WsIsConnected
     THEN UNCHANGED <<cameraActive, detTimers, detRef>>
     ELSE /\ cameraActive' = TRUE
          /\ detTimers' = Append(detTimers,
                                 Timer("start", isPaused, adaptiveInterval))
          /\ detRef' = Len(detTimers) + 1
  /\ UNCHANGED <<mounted, isPaused, isSafetyModalOpen, isProcessing,
                 latencyHistory, adaptiveInterval, detectionRecords,
                 alertActive, ppeStatus, hasDetection, isConnected, wsVars, inflight>>
  /\ UNCHANGED <<aggVars, maxRecords, stableWindow>>
  /\ lastVerdict' = "none"
  /\ lastIO' = "none"

\* the firing of capture timer t reaches this.ws.send (ppeService.ts 238):
\* the callback does not return early, nothing is in flight, handleCapture
\* gave an image and send() neither reconnects nor refuses it
SendsFrame(t, image) ==
  /\ WsIsConnected
  /\ ~(t.chain = "start" /\ t.isPaused)
  /\ ~isProcessing
  /\ image = "ok"

\* the callback of a capture timer (scheduleNextDetection's setTimeout);
\* throws: this.ws.send raised an exception, caught by send() (239-245).
\* send() is reached only behind isConnected() (353-355, 418-420), so its
\* connect() branches are not taken here
DetectionTimerFire(i, image, throws) ==
  /\ mounted = "mounted"
  /\ i \in 1..Len(detTimers)
  /\ throws => SendsFrame(detTimers[i], image)
  /\ LET t == detTimers[i]
         rest == RemoveAt(detTimers, i)
         ref == RefAfterFire(detRef, i)
         capture == ~isProcessing
         again == t.chain = "resume" \/ ~t.isPaused
     IN IF ~WsIsConnected \/ (t.chain = "start" /\ t.isPaused)
        THEN /\ detTimers' = rest
             /\ detRef' = ref
             /\ lastIO' = "none"
             /\ UNCHANGED <<isProcessing, wsVars, inflight>>
        ELSE /\ isProcessing' = IF capture THEN image # "none" ELSE isProcessing
             /\ IF capture /\ image # "none"
                THEN /\ Send(image, throws, FALSE)
                     /\ lastIO' = IF Rejected(image) THEN "rejected" ELSE "none"
                ELSE /\ UNCHANGED <<wsVars, inflight>>
                     /\ lastIO' = "none"
             /\ detTimers' = IF again
                             THEN Append(rest, [t EXCEPT !.delay = adaptiveInterval])
                             ELSE rest
             /\ detRef' = IF again THEN Len(rest) + 1 ELSE ref
  /\ UNCHANGED <<mounted, cameraActive, isPaused, isSafetyModalOpen,
                 latencyHistory, adaptiveInterval, detectionRecords,
                 alertActive, ppeStatus, hasDetection, isConnected>>
  /\ UNCHANGED <<aggVars, maxRecords>>
  /\ stableWindow' = AfterSendFault(throws)
  /\ lastVerdict' = "none"

\* mutant of ResumeTimer: the resume loop starts from the default interval
ResumeTimerDefault == Timer("resume", FALSE, DefaultInterval)

\* the timer handleResume's scheduleNextDetection sets (416-440)
ResumeTimer == Timer("resume", FALSE, adaptiveInterval)

\* handleResume, offered by the button (when connected) and by the safety
\* modal (when open) while isPaused
HandleResume ==
  /\ mounted = "mounted"
  /\ isPaused /\ (isConnected \/ isSafetyModalOpen)
  /\ isPaused' = FALSE
  /\ isSafetyModalOpen' = FALSE
  /\ cameraActive' = TRUE
  /\ IF WsIsConnected
     THEN /\ detTimers' = Append(detTimers, ResumeTimer)
          /\ detRef' = Len(detTimers) + 1
     ELSE UNCHANGED <<detTimers, detRef>>
  /\ UNCHANGED <<mounted, isProcessing, latencyHistory, adaptiveInterval,
                 detectionRecords, alertActive, ppeStatus, hasDetection, isConnected,
                 wsVars, inflight>>
  /\ UNCHANGED <<aggVars, maxRecords, stableWindow>>
  /\ lastVerdict' = "none"
  /\ lastIO' = "none"

\* stopDetection: the button while cameraActive && !isPaused, and
\* handleRefresh (the camera's refresh control) at any time
StopDetection ==
  /\ mounted = "mounted"
  /\ cameraActive' = FALSE
  /\ isPaused' = FALSE
  /\ detTimers' = Cleared(detTimers, detRef)
  /\ detRef' = 0
  /\ isProcessing' = FALSE
  /\ latencyHistory' = <<>>
  /\ adaptiveInterval' = DefaultInterval
  /\ inflight' = [k \in 1..Len(inflight) |-> [inflight[k] EXCEPT !.cur = FALSE]]
  /\ UNCHANGED <<mounted, isSafetyModalOpen, detectionRecords, alertActive, ppeStatus, hasDetection, isConnected, wsVars>>
  /\ UNCHANGED <<aggVars, maxRecords, stableWindow>>
  /\ lastVerdict' = "none"
  /\ lastIO' = "none"

\* handleCloseSafetyModal
CloseSafetyModal ==
  /\ mounted # "unmounted"
  /\ isSafetyModalOpen
  /\ isSafetyModalOpen' = FALSE
  /\ UNCHANGED <<mounted, cameraActive, isPaused, isProcessing, latencyHistory,
                 adaptiveInterval, detectionRecords, detTimers, detRef,
                 alertActive, ppeStatus, hasDetection, isConnected, wsVars, inflight>>
  /\ UNCHANGED <<aggVars, maxRecords, stableWindow>>
  /\ lastVerdict' = "none"
  /\ lastIO' = "none"

\* handleOpenSafetyModal, offered by DetectionHistory on a record whose
\* ppeStatus.epp_completo is false
OpenSafetyModal ==
  /\ mounted # "unmounted"
  /\ \E k \in 1..Len(detectionRecords) : ~detectionRecords[k].epp_completo
  /\ isSafetyModalOpen' = TRUE
  /\ UNCHANGED <<mounted, cameraActive, isPaused, isProcessing, latencyHistory,
                 adaptiveInterval, detectionRecords, detTimers, detRef,
                 alertActive, ppeStatus, hasDetection, isConnected, wsVars, inflight>>
  /\ UNCHANGED <<aggVars, maxRecords, stableWindow>>
  /\ lastVerdict' = "none"
  /\ lastIO' = "none"

(* ----------------- handleDetectionResponse (Dashboard.tsx 173-302) ---- *)
\* if (!data || !data.ppe_status): the response is invalid
IsInvalid(data) == data.ppe_status = "absent"

\* mutant of HasNoPerson: the empty-scene case is not singled out
HasNoPersonIgnored(data) == FALSE

\* if (data.has_person === false)
HasNoPerson(data) == data.has_person = "false"

\* if (!data.is_compliant)
IsViolation(data) == data.is_compliant # "true"

\* the branch of handleDetectionResponse a response takes
Verdict(data) ==
  IF IsInvalid(data) THEN "invalid"
  ELSE IF HasNoPerson(data)
  THEN (IF IsViolation(data) THEN "no-person-violation" ELSE "no-person")
  ELSE IF IsViolation(data) THEN "violation" ELSE "compliant"

\* mutant of PauseAfter: a compliant verdict lifts the pause by itself
PauseFollowsVerdict(data, paused) == IsViolation(data)

\* isPaused after a verdict: setIsPaused(true) on a violation, untouched
\* otherwise (272-301)
PauseAfter(data, paused) == IF IsViolation(data) THEN TRUE ELSE paused

\* mutant of StatusAfter: an empty scene leaves the last status in place
StatusKept(data, shown) ==
  IF IsInvalid(data) \/ HasNoPerson(data) THEN shown ELSE data.ppe_status

\* setPpeStatus: untouched by an invalid response (180-185), every item
\* false on an empty scene (189-199), data.ppe_status otherwise (235)
StatusAfter(data, shown) ==
  IF IsInvalid(data) THEN shown
  ELSE IF HasNoPerson(data) THEN "neutral"
  ELSE data.ppe_status

\* setHasDetection: untouched by an invalid response, false on an empty
\* scene (202), data.has_person || false otherwise (247)
DetectionAfter(data, had) ==
  IF IsInvalid(data) THEN had
  ELSE IF HasNoPerson(data) THEN FALSE
  ELSE data.has_person = "true"

\* mutant of AlertAfter: a compliant verdict leaves the alert as it was
AlertLatched(data, active) == IsViolation(data) \/ active

\* alertService.trigger(...) on a violation, alertService.reset() otherwise
\* (272-301)
AlertAfter(data, active) == IsViolation(data)

\* mutant of Caught: an exception of alertService.trigger leaves the handler
Uncaught(throws) == ~throws

\* try { alertService.trigger(...) } catch (error) { console.error(...) }
\* (273-284): the statements after it run whether or not trigger threw
Caught(throws) == TRUE

\* latency = Date.now() - lastSendTimeRef.current (175) is read only where
\* the window records it (208): the other branches see one value
\* the response reaches the statements that record its latency (208-211)
RecordsLatency(data) == ~IsInvalid(data) /\ ~HasNoPerson(data)

LatenciesFor(data) ==
  IF IsInvalid(data) \/ HasNoPerson(data) THEN {200} ELSE Latencies

\* the requests still outstanding, none of them current any more
Superseded(reqs) == [k \in 1..Len(reqs) |-> [reqs[k] EXCEPT !.cur = FALSE]]

\* the backend's answer to outstanding request k reaches onmessage of its
\* socket and is passed to handleDetectionResponse; latency is
\* Date.now() - lastSendTimeRef.current
\* The callback belongs to the PPEWebSocket: it also runs after the
\* Dashboard unmounted, on a socket disconnect() did not close.
HandleDetectionResponse(k, data, latency) ==
  /\ k \in 1..Len(inflight)
  /\ socks[inflight[k].sock] = "OPEN"
  /\ LET rest == RemoveAt(inflight, k)
         hist == PushLatency(latencyHistory, latency)
     IN IF IsInvalid(data) \/ HasNoPerson(data)
        THEN /\ isProcessing' = FALSE
             /\ inflight' = rest
             /\ ppeStatus' = StatusAfter(data, ppeStatus)
             /\ hasDetection' = DetectionAfter(data, hasDetection)
             /\ lastIO' = "none"
             /\ UNCHANGED <<isPaused, isSafetyModalOpen, latencyHistory,
                            adaptiveInterval, detectionRecords, detTimers,
                            detRef, alertActive>>
        ELSE /\ Changes(hist) <= MaxLatencyChanges
             /\ ppeStatus' = StatusAfter(data, ppeStatus)
             /\ hasDetection' = DetectionAfter(data, hasDetection)
             /\ latencyHistory' = hist
             /\ adaptiveInterval' = AdjustInterval(hist, adaptiveInterval)
             /\ isProcessing' = FALSE
             /\ detectionRecords' =
                  AppendHistory(detectionRecords, crearRegistroDesdeDeteccion(data))
             /\ alertActive' = AlertAfter(data, alertActive)
             /\ IF IsViolation(data)
                THEN \E throws \in BOOLEAN :
                       /\ lastIO' = IF throws THEN "alert-error" ELSE "none"
                       /\ IF Caught(throws)
                          THEN /\ isPaused' = PauseAfter(data, isPaused)
                               /\ isSafetyModalOpen' = TRUE
                               /\ detTimers' = Cleared(detTimers, detRef)
                               /\ detRef' = 0
                               /\ inflight' = Superseded(rest)
                          ELSE /\ inflight' = rest
                               /\ UNCHANGED <<isPaused, isSafetyModalOpen,
                                              detTimers, detRef>>
                ELSE /\ isPaused' = PauseAfter(data, isPaused)
                     /\ inflight' = rest
                     /\ lastIO' = "none"
                     /\ UNCHANGED <<isSafetyModalOpen, detTimers, detRef>>
  /\ UNCHANGED <<mounted, cameraActive, isConnected, wsVars>>
  /\ UNCHANGED <<aggVars, maxRecords, stableWindow>>
  /\ lastVerdict' = Verdict(data)

(* ----------------- the class used on its own -------------------------- *)
\* connect() called by the owner of the PPEWebSocket
ApiConnect(refused) ==
  /\ Connect(refused)
  /\ UNCHANGED <<dashVars, isConnected, reconnectAttempts, currentDelayIndex,
                 heartbeat, stableTimer, reconnTimers, inflight>>
  /\ UNCHANGED <<aggVars, maxRecords, stableWindow>>
  /\ lastVerdict' = "none"
  /\ lastIO' = IF refused THEN "connect-error" ELSE "none"

\* disconnect() called by the owner
ApiDisconnect ==
  /\ Disconnect
  /\ UNCHANGED <<dashVars, isConnected, inflight>>
  /\ UNCHANGED <<aggVars, maxRecords>>
  /\ stableWindow' = "none"
  /\ lastVerdict' = "none"
  /\ lastIO' = "none"

\* send() called by the owner
ApiSend(image, throws, refused) ==
  /\ Send(image, throws, refused)
  /\ UNCHANGED <<dashVars, isConnected>>
  /\ UNCHANGED <<aggVars, maxRecords>>
  /\ stableWindow' = AfterSendFault(WsIsConnected /\ ~Rejected(image) /\ throws)
  /\ lastVerdict' = "none"
  /\ lastIO' = IF Rejected(image) THEN "rejected"
               ELSE IF SendConnects /\ refused THEN "connect-error"
               ELSE "none"

(* ----------------- detection service (unnamed/part_000) --------------- *)
\* A JavaScript string is modelled as [text, case]: text is the string in
\* lower case, case tells how its letters are written.  Two strings are
\* equal only when both fields are.  A value whose case is not in Cases is
\* not a string.
Cases == {"lower", "upper"}
Str(text) == [text |-> text, case |-> "lower"]

\* Object.prototype.constructor, the property every object literal inherits
\* under the name 'constructor'
ObjectConstructor == [text |-> "Object", case |-> "function"]

\* Object.prototype itself, which every object literal answers under the
\* name '__proto__'; as a property key it is the string "[object Object]"
ObjectPrototype == [text |-> "[object Object]", case |-> "object"]

\* the exception of calling .toLowerCase on a value that has no such method
TypeError == [text |-> "TypeError", case |-> "thrown"]

\* 'x'.toLowerCase()
ToLowerCase(str) == [str EXCEPT !.case = "lower"]

\* the required classes, in the order of the array
EPP_CLASSES ==
  <<Str("barbijo"), Str("botas"), Str("camisa_jean"), Str("casco"),
    Str("chaleco"), Str("guantes"), Str("lentes"), Str("pantalon")>>

RequiredSet == {EPP_CLASSES[i] : i \in 1..Len(EPP_CLASSES)}

\* the object literal CLASS_MAPPING: its keys are written in lower case
CLASS_MAPPING ==
  ("mask" :> "barbijo") @@ ("masks" :> "barbijo") @@
  ("boot" :> "botas") @@ ("boots" :> "botas") @@
  ("shirt" :> "camisa_jean") @@ ("shirts" :> "camisa_jean") @@
  ("helmet" :> "casco") @@ ("helmets" :> "casco") @@ ("cascos" :> "casco") @@
  ("vest" :> "chaleco") @@ ("vests" :> "chaleco") @@
  ("glove" :> "guantes") @@ ("gloves" :> "guantes") @@
  ("glasses" :> "lentes") @@ ("glass" :> "lentes") @@
  ("pant" :> "pantalon") @@ ("pants" :> "pantalon") @@
  ("barbijo" :> "barbijo") @@ ("botas" :> "botas") @@
  ("camisa_jean" :> "camisa_jean") @@ ("casco" :> "casco") @@
  ("chaleco" :> "chaleco") @@ ("guantes" :> "guantes") @@
  ("lentes" :> "lentes") @@ ("pantalon" :> "pantalon")

\* det.class || det.class_name || '' of a prediction: a key of the mapping
\* in any letter case, a label the mapping does not know, the name of an
\* inherited property, or no label
LabelTexts ==
  DOMAIN CLASS_MAPPING \cup {"person", "constructor", "__proto__", ""}
Labels == [text : LabelTexts, case : Cases]
NoLabel == [text |-> "", case |-> "none"]

\* CLASS_MAPPING[str]: the value of an own key, an inherited property, or
\* undefined (NoLabel).  'constructor' and '__proto__' are the only names
\* Object.prototype answers that are written in lower case.
Lookup(str) ==
  IF str.case = "lower" /\ str.text \in DOMAIN CLASS_MAPPING
  THEN Str(CLASS_MAPPING[str.text])
  ELSE IF str = Str("constructor") THEN ObjectConstructor
  ELSE IF str = Str("__proto__") THEN ObjectPrototype
  ELSE NoLabel

\* originalClass = label.toLowerCase();
\* className = CLASS_MAPPING[originalClass] || originalClass   (214-215)
Normalize(label) ==
  IF label.case \notin Cases THEN TypeError
  ELSE LET originalClass == ToLowerCase(label)
       IN IF Lookup(originalClass) # NoLabel
          THEN Lookup(originalClass)
          ELSE originalClass

\* const groupedDetections = {}: no key yet.  A property key is the class
\* name as a string; the function's string is its source text and the
\* prototype's is "[object Object]", which no lower-cased label equals, so
\* the key is modelled by the value itself.
NoGroups == [c \in {} |-> 0]

\* Object.keys(detectionsByClass)
Keys(detectionsByClass) == DOMAIN detectionsByClass

\* mutant of validateCompletePPE: complete when enough classes were seen
validateByCount(detectionsByClass) ==
  LET detected == Keys(detectionsByClass)
      missing == SelectSeq(EPP_CLASSES, LAMBDA cls : cls \notin detected)
  IN [isComplete |-> Cardinality(detected) >= Len(EPP_CLASSES),
      detected |-> detected,
      missing |-> missing,
      completionRate |-> (Cardinality(detected) * 10000) \div Len(EPP_CLASSES)]

\* mutant of validateCompletePPE: missing lists the classes last to first
validateReversed(detectionsByClass) ==
  LET detected == Keys(detectionsByClass)
      missing == SelectSeq(EPP_CLASSES, LAMBDA cls : cls \notin detected)
  IN [isComplete |-> Len(missing) = 0,
      detected |-> detected,
      missing |-> [i \in 1..Len(missing) |-> missing[Len(missing) + 1 - i]],
      completionRate |-> (Cardinality(detected) * 10000) \div Len(EPP_CLASSES)]

\* validateCompletePPE (254-264).  completionRate is the text
\* (detected.length / 8 * 100).toFixed(2) read as hundredths of a percent:
\* "87.50" is 8750.  With 8 classes the quotient has at most one decimal,
\* so toFixed rounds nothing.
validateCompletePPE(detectionsByClass) ==
  LET detected == Keys(detectionsByClass)
      missing == SelectSeq(EPP_CLASSES, LAMBDA cls : cls \notin detected)
  IN [isComplete |-> Len(missing) = 0,
      detected |-> detected,
      missing |-> missing,
      completionRate |-> (Cardinality(detected) * 10000) \div Len(EPP_CLASSES)]

\* convertToLegacyFormat (orchestrationService.ts 253-271): the response the
\* Dashboard handles for a validation
convertToLegacyFormat(validation) ==
  [ppe_status |-> IF validation.isComplete THEN "complete" ELSE "incomplete",
   has_person |-> "true",
   is_compliant |-> IF validation.isComplete THEN "true" ELSE "false"]

\* mutant of Push: the class's list is replaced by the new item
PushReplaces(groups, c) == (c :> 1) @@ groups

\* if (!groupedDetections[className]) groupedDetections[className] = [];
\* groupedDetections[className].push(...)   (217-230)
Push(groups, c) ==
  IF c \notin DOMAIN groups
  THEN groups @@ (c :> 1)
  ELSE [groups EXCEPT ![c] = @ + 1]

\* the body of detectionsArray.forEach for one prediction (213-231)
ForEachDetection(label) ==
  /\ totalDetections < MaxDetections
  /\ Normalize(label) \in DOMAIN groupedDetections
       => groupedDetections[Normalize(label)] < MaxPerClass
  /\ groupedDetections' = Push(groupedDetections, Normalize(label))
  /\ totalDetections' = totalDetections + 1
  /\ UNCHANGED <<det, className>>
  /\ UNCHANGED <<dashVars, maxRecords, isConnected, wsVars, inflight,
                 lastVerdict, stableWindow, lastIO>>

\* the first two statements of that body on their own
NormalizeDet ==
  /\ className = NoLabel
  /\ className' = Normalize(det)
  /\ UNCHANGED <<det, groupedDetections, totalDetections>>
  /\ UNCHANGED <<dashVars, maxRecords, isConnected, wsVars, inflight,
                 lastVerdict, stableWindow, lastIO>>

\* a class name fed back as a label
NormalizeAgain ==
  /\ className \notin {NoLabel, TypeError}
  /\ det # className
  /\ det' = className
  /\ className' = Normalize(className)
  /\ UNCHANGED <<groupedDetections, totalDetections>>
  /\ UNCHANGED <<dashVars, maxRecords, isConnected, wsVars, inflight,
                 lastVerdict, stableWindow, lastIO>>

(* ----------------- Dashboard unmount (Dashboard.tsx 326-339) ---------- *)
\* the cleanup of the mount effect: clearTimeout(initTimeout), then, if the
\* transport was created, wsRef.current.disconnect() and
\* clearTimeout(detectionIntervalRef.current)
Unmount ==
  /\ mounted \in {"init", "mounted"}
  /\ mounted' = "unmounted"
  /\ IF mounted = "init"
     THEN UNCHANGED <<wsVars, detTimers, detRef>>
     ELSE /\ Disconnect
          /\ detTimers' = Cleared(detTimers, detRef)
          /\ detRef' = 0
  /\ UNCHANGED <<cameraActive, isPaused, isSafetyModalOpen, isProcessing,
                 latencyHistory, adaptiveInterval, detectionRecords,
                 alertActive, ppeStatus, hasDetection, isConnected, inflight>>
  /\ UNCHANGED <<aggVars, maxRecords>>
  /\ stableWindow' = IF mounted = "init" THEN stableWindow ELSE "none"
  /\ lastVerdict' = "none"
  /\ lastIO' = "none"

(* ----------------- clearHistory (Dashboard.tsx 96-106) --------------- *)
\* the imperative handle's clearHistory: setDetectionRecords([])
ClearHistory ==
  /\ mounted # "unmounted"
  /\ detectionRecords' = <<>>
  /\ UNCHANGED <<mounted, cameraActive, isPaused, isSafetyModalOpen,
                 isProcessing, latencyHistory, adaptiveInterval, detTimers,
                 detRef, alertActive, ppeStatus, hasDetection, isConnected, wsVars, inflight>>
  /\ UNCHANGED <<aggVars, maxRecords, stableWindow>>
  /\ lastVerdict' = "none"
  /\ lastIO' = "none"

(* ----------------- specifications ------------------------------------- *)
\* the Dashboard and its transport before the mount effect, with the
\* history loaded from what localStorage holds
SessionInitWith(stored, max) ==
  /\ mounted = "init"
  /\ maxRecords = max
  /\ stableWindow = "none"
  /\ cameraActive = FALSE
  /\ isPaused = FALSE
  /\ isSafetyModalOpen = FALSE
  /\ isConnected = FALSE
  /\ isProcessing = FALSE
  /\ latencyHistory = <<>>
  /\ adaptiveInterval = DefaultInterval
  /\ detectionRecords = LoadHistory(stored, max)
  /\ detTimers = <<>>
  /\ detRef = 0
  /\ alertActive = FALSE
  /\ ppeStatus = "neutral"
  /\ hasDetection = FALSE
  /\ socks = [s \in SockIds |-> "FREE"]
  /\ ws = 0
  /\ reconnectAttempts = 0
  /\ currentDelayIndex = 0
  /\ isManualDisconnect = FALSE
  /\ heartbeat = FALSE
  /\ stableTimer = FALSE
  /\ reconnTimers = <<>>
  /\ inflight = <<>>
  /\ lastVerdict = "none"
  /\ lastIO = "none"

\* a first visit: localStorage holds no history
SessionInit == SessionInitWith(<<>>, SessionRecords)

Init ==
  /\ SessionInit
  /\ groupedDetections = NoGroups
  /\ totalDetections = 0
  /\ det = NoLabel
  /\ className = NoLabel

\* the monitoring session: the Dashboard with its transport, on sockets
\* whose send() does not raise in the capture loop (a raising send is
\* explored in NextTeardown and NextWS)
Next ==
  \/ \E refused \in BOOLEAN : MountEffect(refused)
  \/ \E s \in SockIds : OnOpen(s)
  \/ \E s \in SockIds : OnError(s)
  \/ \E s \in SockIds, code \in CloseCodes :
       reconnectAttempts < MaxSessionAttempts /\ OnClose(s, code)
  \/ \E i \in 1..Len(reconnTimers), refused \in BOOLEAN :
       ReconnectTimerFire(i, refused)
  \/ StableTimerFire
  \/ \E k \in 1..Len(inflight) : GarbledResponse(k)
  \/ StartDetection
  \/ \E i \in 1..Len(detTimers), image \in Images :
       DetectionTimerFire(i, image, FALSE)
  \/ \E k \in 1..Len(inflight), data \in Responses :
       \E latency \in LatenciesFor(data) :
         /\ RecordsLatency(data) => Len(latencyHistory) < MaxSessionSamples
         /\ HandleDetectionResponse(k, data, latency)
  \/ HandleResume
  \/ StopDetection
  \/ CloseSafetyModal
  \/ OpenSafetyModal

Spec == Init /\ [][Next]_vars

\* the PPEWebSocket class driven through its public methods
NextWS ==
  \/ \E refused \in BOOLEAN : ApiConnect(refused)
  \/ ApiDisconnect
  \/ \E image \in Images, throws \in BOOLEAN, refused \in BOOLEAN :
       ApiSend(image, throws, refused)
  \/ \E s \in SockIds : OnOpen(s)
  \/ \E s \in SockIds : OnError(s)
  \/ \E s \in SockIds, code \in CloseCodes : OnClose(s, code)
  \/ \E i \in 1..Len(reconnTimers), refused \in BOOLEAN :
       ReconnectTimerFire(i, refused)
  \/ StableTimerFire
  \/ \E throws \in BOOLEAN, refused \in BOOLEAN :
       HeartbeatFire(throws, refused)
  \/ \E s \in SockIds, type \in MessageTypes, throws \in BOOLEAN :
       OnMessage(s, type, throws)
  \/ \E k \in 1..Len(inflight) : GarbledResponse(k)

SpecWS == Init /\ [][NextWS]_vars

\* the transport as the mounted Dashboard drives it: one connect() at mount,
\* send() only while isConnected() (343, 353, 418), socket events and timers
NextLink ==
  \/ \E refused \in BOOLEAN : MountEffect(refused)
  \/ \E s \in SockIds : OnOpen(s)
  \/ \E s \in SockIds : OnError(s)
  \/ \E s \in SockIds, code \in CloseCodes : OnClose(s, code)
  \/ \E i \in 1..Len(reconnTimers), refused \in BOOLEAN :
       ReconnectTimerFire(i, refused)
  \/ StableTimerFire
  \/ HeartbeatFire(FALSE, FALSE)
  \/ \E s \in SockIds, type \in MessageTypes, throws \in BOOLEAN :
       OnMessage(s, type, throws)
  \/ \E image \in {"ok", "big"} : WsIsConnected /\ ApiSend(image, FALSE, FALSE)
  \/ \E k \in 1..Len(inflight) : GarbledResponse(k)

\* a timer set with setTimeout fires once its delay has passed
FairLink ==
  /\ Init /\ [][NextLink]_vars
  /\ WF_vars(\E i \in 1..Len(reconnTimers), refused \in BOOLEAN :
               ReconnectTimerFire(i, refused))

\* a session from mount to unmount: the transport's events and timers, the
\* capture loop, stop and the cleanup of the mount effect
NextTeardown ==
  \/ \E refused \in BOOLEAN : MountEffect(refused)
  \/ \E s \in SockIds : OnOpen(s)
  \/ \E s \in SockIds, code \in CloseCodes :
       reconnectAttempts < MaxSessionAttempts /\ OnClose(s, code)
  \/ \E i \in 1..Len(reconnTimers), refused \in BOOLEAN :
       ReconnectTimerFire(i, refused)
  \/ StableTimerFire
  \/ HeartbeatFire(FALSE, FALSE)
  \/ StartDetection
  \/ \E i \in 1..Len(detTimers), image \in Images, throws \in BOOLEAN :
       (throws => reconnectAttempts < MaxSessionAttempts)
       /\ DetectionTimerFire(i, image, throws)
  \/ StopDetection
  \/ Unmount

SpecTeardown == Init /\ [][NextTeardown]_vars

\* a session on a connection that stays open, starting with the history
\* localStorage holds: captures, their verdicts, resume, stop, clearHistory
InitStored ==
  /\ \E stored \in StoredHistories(SessionRecords) :
       SessionInitWith(stored, SessionRecords)
  /\ groupedDetections = NoGroups
  /\ totalDetections = 0
  /\ det = NoLabel
  /\ className = NoLabel

NextHistory ==
  \/ \E refused \in BOOLEAN : MountEffect(refused)
  \/ \E s \in SockIds : OnOpen(s)
  \/ StartDetection
  \/ \E i \in 1..Len(detTimers), image \in Images :
       DetectionTimerFire(i, image, FALSE)
  \/ \E k \in 1..Len(inflight), data \in Responses :
       \E latency \in LatenciesFor(data) :
         HandleDetectionResponse(k, data, latency)
  \/ HandleResume
  \/ StopDetection
  \/ CloseSafetyModal
  \/ ClearHistory

SpecHistory == InitStored /\ [][NextHistory]_vars

\* what localStorage holds when a previous session filled the history
FullHistories(max) == {h \in StoredHistories(max) : Len(h) >= max}

\* a session under every capacity up to MaxRecords that starts with a full
\* history: verdicts at one latency on a connection that stays open, resume
\* after a violation, clearHistory
InitRecords ==
  /\ \E max \in 1..MaxRecords :
       \E stored \in FullHistories(max) : SessionInitWith(stored, max)
  /\ groupedDetections = NoGroups
  /\ totalDetections = 0
  /\ det = NoLabel
  /\ className = NoLabel

NextRecords ==
  \/ MountEffect(FALSE)
  \/ \E s \in SockIds : OnOpen(s)
  \/ StartDetection
  \/ \E i \in 1..Len(detTimers) : DetectionTimerFire(i, "ok", FALSE)
  \/ \E k \in 1..Len(inflight), data \in Responses :
       /\ RecordsLatency(data) => Len(latencyHistory) < MaxRecorded
       /\ HandleDetectionResponse(k, data, 200)
  \/ HandleResume
  \/ ClearHistory

SpecRecords == InitRecords /\ [][NextRecords]_vars

\* processDetections and validateCompletePPE on one Roboflow response
NextAgg == \E label \in Labels : ForEachDetection(label)

SpecAgg == Init /\ [][NextAgg]_vars

\* label normalization on every label
InitNorm ==
  /\ SessionInit
  /\ groupedDetections = NoGroups
  /\ totalDetections = 0
  /\ det \in Labels
  /\ className = NoLabel

NextNorm == NormalizeDet \/ NormalizeAgain

SpecNorm == InitNorm /\ [][NextNorm]_vars

(* ====================================================================== *)
(* Claims                                                                 *)
(* ====================================================================== *)
\* the gate: Idle (no session), Armed (session running), Paused
Idle == ~cameraActive /\ ~isPaused
Armed == cameraActive /\ ~isPaused
Paused == isPaused

\* (lastVerdict' is tested first in the formulas below only to skip the
\* steps that handled no response; the handler itself sets it)

\* a step transmitted a detection request
CaptureSent == Len(inflight') > Len(inflight)

\* C1: a violation verdict with a subject present, handled while Armed,
\* pauses the gate at once, leaves no capture timer pending and calls the
\* alert; and no step taken while the gate is paused transmits a capture.
C1_PauseOnFirstViolation ==
  [][ /\ (lastVerdict' = "violation" /\ Armed) =>
         \A k \in 1..Len(inflight), data \in Responses, latency \in Latencies :
           ( /\ lastVerdict' = Verdict(data)
             /\ data.ppe_status # "absent"
             /\ data.has_person = "true"
             /\ data.is_compliant = "false"
             /\ HandleDetectionResponse(k, data, latency) )
           => (isPaused' /\ detTimers' = <<>> /\ alertActive')
      /\ isPaused => ~CaptureSent ]_vars

\* C1 witness: the first verdict of a session was a violation and paused it
C1_Witness ==
  /\ lastVerdict = "violation"
  /\ cameraActive /\ isPaused
  /\ Len(latencyHistory) = 1
  /\ detTimers = <<>>
  /\ alertActive

\* the callback that runs for timer t tests a pause flag before capturing:
\* startDetection's callback does (353), handleResume's does not (418)
TestsPause(t) == t.chain = "start"

\* C2: while the gate is Paused no capture timer is pending, and every
\* pending capture timer runs a callback that tests the gate's pause state
\* before capturing.
C2_SchedulerChecksGate ==
  /\ isPaused => detTimers = <<>>
  /\ \A i \in 1..Len(detTimers) :
       TestsPause(detTimers[i]) /\ detTimers[i].isPaused = isPaused

\* C3: a response to a request that is no longer the current one (the gate
\* paused or the session was stopped after it was sent) changes neither the
\* pause state, the latency window, the interval, the history nor the
\* in-flight flag.
C3_StaleResponseDiscarded ==
  [][ \A k \in 1..Len(inflight), data \in Responses, latency \in Latencies :
        (lastVerdict' # "none" /\ HandleDetectionResponse(k, data, latency)
           /\ ~inflight[k].cur)
        => UNCHANGED <<isPaused, latencyHistory, adaptiveInterval,
                       detectionRecords, isProcessing>> ]_vars

\* C4: after disconnect() and until connect() is called again by the owner,
\* no socket is created, no reconnect is scheduled and the backoff state
\* stays at 0.
C4_NoReconnectAfterDisconnect ==
  [][ (isManualDisconnect /\ ~(\E refused \in BOOLEAN : ApiConnect(refused)))
      => /\ isManualDisconnect'
         /\ ws' = 0
         /\ \A s \in SockIds : socks'[s] = "CONNECTING" => socks[s] = "CONNECTING"
         /\ Len(reconnTimers') <= Len(reconnTimers)
         /\ reconnectAttempts' = 0
         /\ currentDelayIndex' = 0 ]_vars

\* C5: handling a response with has_person false never changes the pause
\* state, whatever its other fields hold.
C5_NoPersonNeverPauses ==
  [][ lastVerdict' # "none" =>
        \A k \in 1..Len(inflight), data \in Responses, latency \in Latencies :
          ( /\ data.has_person = "false"
            /\ lastVerdict' = Verdict(data)
            /\ HandleDetectionResponse(k, data, latency) )
          => UNCHANGED isPaused ]_vars

\* C5 witness: an empty-scene response that reported a violation was
\* handled and the session is still Armed
C5_Witness == lastVerdict = "no-person-violation" /\ Armed /\ detTimers # <<>>

\* C6: a step that ends the pause is handleResume or stopDetection, and a
\* step from Paused to Armed is handleResume.
C6_PausedUntilResume ==
  [][ /\ (isPaused /\ ~isPaused') => (HandleResume \/ StopDetection)
      /\ (isPaused /\ Armed') => HandleResume ]_vars

\* C6 witness: a compliant verdict was handled while the gate was paused
\* and the gate is still paused
C6_Witness == lastVerdict = "compliant" /\ isPaused /\ cameraActive

\* C7: stopDetection leads to Idle with the latency history empty, the
\* interval 1500, no capture timer pending and the in-flight flag cleared;
\* a restart schedules its first capture with 1500; and the history stays
\* empty until the response to a request sent after the stop arrives.
C7_StopResetsSession ==
  [][ /\ StopDetection
         => /\ Idle'
            /\ latencyHistory' = <<>>
            /\ adaptiveInterval' = 1500
            /\ detTimers' = <<>>
            /\ ~isProcessing'
      /\ (StartDetection /\ cameraActive')
         => detTimers' = <<Timer("start", FALSE, 1500)>>
      /\ \A k \in 1..Len(inflight), data \in Responses, latency \in Latencies :
           ( /\ latencyHistory = <<>>
             /\ latencyHistory' # <<>>
             /\ HandleDetectionResponse(k, data, latency) )
           => inflight[k].cur ]_vars

\* C8: handleResume leaves the latency history and the interval unchanged,
\* every capture timer pending after it carries the current adaptive
\* interval, and with the transport connected exactly one is pending.
C8_ResumeKeepsInterval ==
  [][ HandleResume
      => /\ UNCHANGED <<latencyHistory, adaptiveInterval>>
         /\ \A i \in 1..Len(detTimers') : detTimers'[i].delay = adaptiveInterval
         /\ WsIsConnected => Len(detTimers') = 1 ]_vars

\* C8 witness: the resume loop is armed with the slow tier, not the default
C8_Witness ==
  /\ Len(detTimers) = 1
  /\ detTimers[1].chain = "resume"
  /\ detTimers[1].delay = 2500
  /\ adaptiveInterval = 2500
  /\ Len(latencyHistory) >= 5

\* C9: with at least 5 samples in the window the interval is the tier of
\* their mean: below 300 -> 1000, from 300 to below 600 -> 1500, from 600
\* on -> 2500.
C9_IntervalIsTierOfMean ==
  Len(latencyHistory) >= 5 =>
    LET n == Len(latencyHistory)
        total == Sum(latencyHistory)
    IN /\ total < 300 * n => adaptiveInterval = 1000
       /\ (300 * n <= total /\ total < 600 * n) => adaptiveInterval = 1500
       /\ total >= 600 * n => adaptiveInterval = 2500

\* C9 witness: a window whose mean is exactly 300 ms, at the middle tier
C9_Witness ==
  /\ Len(latencyHistory) >= 5
  /\ Sum(latencyHistory) = 300 * Len(latencyHistory)
  /\ adaptiveInterval = 1500

\* C10: with fewer than 5 samples in the window the interval is 1500.
C10_DefaultBelowFiveSamples ==
  Len(latencyHistory) < 5 => adaptiveInterval = 1500

\* C10 witness: four fast samples after a restart, still the default
C10_Witness ==
  /\ Len(latencyHistory) = 4
  /\ Sum(latencyHistory) < 300 * 4
  /\ adaptiveInterval = 1500
  /\ detectionRecords # <<>>
  /\ Armed

\* the reconnect a step scheduled, if the step is a non-manual closure
NonManualClose(s, code) == OnClose(s, code) /\ ~isManualDisconnect

\* C11: the k-th consecutive non-manual closure (k = reconnectAttempts + 1)
\* schedules one reconnect with step min(k, 4) of the ladder 2 s, 5 s, 10 s,
\* 30 s, and moves the ladder exactly one step, staying on the last one.
C11_LadderStepPerFailure ==
  [][ \A s \in SockIds, code \in CloseCodes :
        NonManualClose(s, code)
        => /\ reconnTimers' =
                Append(reconnTimers,
                       <<2000, 5000, 10000, 30000>>[Min(reconnectAttempts + 1, 4)])
           /\ currentDelayIndex' = Min(currentDelayIndex + 1, 3)
           /\ reconnectAttempts' = reconnectAttempts + 1 ]_vars

\* C11 witness: the fifth consecutive failure was scheduled with 30 s again
C11_Witness ==
  /\ reconnectAttempts = 5
  /\ currentDelayIndex = 3
  /\ reconnTimers # <<>>
  /\ reconnTimers[Len(reconnTimers)] = 30000
  /\ ~isManualDisconnect

C13_EveryClosureRetried ==
  [][ /\ \A s \in SockIds, code \in CloseCodes :
           NonManualClose(s, code)
           => Len(reconnTimers') = Len(reconnTimers) + 1
      /\ \A i \in 1..Len(reconnTimers), refused \in BOOLEAN :
           ReconnectTimerFire(i, refused)
           => \/ reconnTimers' # <<>>
              \/ \E s \in SockIds : socks'[s] \in {"CONNECTING", "OPEN"} ]_vars

\* a step called connect() (a socket was created, or the constructor
\* raised and the catch logged it) or set attemptReconnect's timer
ReconnectTriggered ==
  \/ \E s \in SockIds : socks'[s] = "CONNECTING" /\ socks[s] # "CONNECTING"
  \/ lastIO' = "connect-error"
  \/ Len(reconnTimers') > Len(reconnTimers)

\* C14: send() of a frame within the size limit transmits it exactly when
\* the connection is open, and in every other connection state triggers a
\* reconnect attempt.
C14_SendOnlyWhenOpen ==
  [][ \A refused \in BOOLEAN :
        ApiSend("ok", FALSE, refused)
        => /\ CaptureSent <=> WsIsConnected
           /\ ~WsIsConnected => ReconnectTriggered ]_vars

\* C15: a keepalive ping whose send fails goes through attemptReconnect:
\* one reconnect is scheduled with the current ladder delay, the ladder
\* moves one step, and no socket is created by the step itself.
C15_PingFailureUsesLadder ==
  [][ (HeartbeatFire(TRUE, FALSE) /\ WsIsConnected)
      => /\ reconnTimers' =
              Append(reconnTimers, reconnectDelays[currentDelayIndex + 1])
         /\ currentDelayIndex' = Min(currentDelayIndex + 1, 3)
         /\ UNCHANGED socks ]_vars

\* C16: a message of type connected, processing, ping or pong does not
\* reach the onMessage callback and changes no Dashboard state; any other
\* parsable message reaches it; a ping met while this.ws is open is
\* answered with one pong, and nothing else is.
C16_ControlMessagesConsumed ==
  [][ \A s \in SockIds, type \in MessageTypes, throws \in BOOLEAN :
        OnMessage(s, type, throws)
        => /\ type \in {"connected", "processing", "ping", "pong"}
                => (lastVerdict' = "none" /\ UNCHANGED dashVars)
           /\ type = "other" => lastVerdict' # "none"
           /\ lastIO' = "pong" <=> (type = "ping" /\ WsIsConnected) ]_vars

\* C17: send() of a frame above the ceiling on an open connection changes
\* nothing: no request transmitted, no reconnect scheduled, backoff state
\* and sockets as before; the frame is only logged.
C17_OversizeRejectedLocally ==
  [][ \A throws \in BOOLEAN, refused \in BOOLEAN :
        (ApiSend("big", throws, refused) /\ WsIsConnected)
        => /\ UNCHANGED <<wsVars, inflight, isConnected>>
           /\ lastIO' = "rejected" ]_vars

\* C17 witness: a frame was rejected while a ladder position was held
C17_Witness ==
  /\ lastIO = "rejected"
  /\ WsIsConnected
  /\ currentDelayIndex = 2
  /\ inflight = <<>>

\* a request is outstanding on an open socket, so its answer can still
\* reach handleDetectionResponse and clear the in-flight flag
AnswerPending ==
  \E k \in 1..Len(inflight) : socks[inflight[k].sock] = "OPEN"

\* C18: a step that logs a payload fault (a frame rejected as oversized, a
\* message JSON.parse rejects) while the session is Armed leaves it able to
\* capture again: the capture callbacks send only while the in-flight flag
\* is clear (357, 422), so after the step the flag is clear or an answer
\* that clears it is still pending.
C18_PayloadFaultDropsOneFrame ==
  [][ (lastIO' \in {"rejected", "unparsable"} /\ Armed')
      => (isProcessing' => AnswerPending') ]_vars

\* C19: a response without ppe_status or without is_compliant is
\* discarded: the gate, the modal, the alert, the history, the latency
\* window, the interval and the capture timers stay as they are.
C19_MissingFieldIsInvalid ==
  [][ \A k \in 1..Len(inflight), data \in Responses, latency \in Latencies :
        ( /\ lastVerdict' = Verdict(data)
          /\ (data.ppe_status = "absent" \/ data.is_compliant = "absent")
          /\ HandleDetectionResponse(k, data, latency) )
        => UNCHANGED <<isPaused, isSafetyModalOpen, alertActive,
                       detectionRecords, latencyHistory, adaptiveInterval,
                       detTimers, detRef>> ]_vars

\* C20: when a connection opens while the session is Armed, the session
\* can capture again without stop and start: a capture timer is pending
\* and the in-flight flag of the request lost with the old connection is
\* clear.
C20_SessionSurvivesReconnect ==
  [][ \A s \in SockIds :
        (OnOpen(s) /\ Armed) => (detTimers' # <<>> /\ ~isProcessing') ]_vars

(* ----------------- detection service: C22 .. C26 ---------------------- *)
\* the required classes with at least one detection
RequiredPresent == RequiredSet \cap Keys(groupedDetections)

\* the required classes with no detection
RequiredAbsent == RequiredSet \ RequiredPresent

\* C22: for every aggregation, validateCompletePPE answers isComplete
\* exactly when missing is empty, and missing lists exactly the required
\* classes that have no detection, each once.
C22_CompleteIffNothingMissing ==
  LET v == validateCompletePPE(groupedDetections)
  IN /\ v.isComplete <=> (v.missing = <<>>)
     /\ {v.missing[i] : i \in 1..Len(v.missing)} = RequiredAbsent
     /\ Len(v.missing) = Cardinality(RequiredAbsent)

\* C22 happens: a class outside the required set and seven required
\* classes were detected, lentes is the one missing.
C22_Witness ==
  /\ Str("person") \in Keys(groupedDetections)
  /\ validateCompletePPE(groupedDetections).missing = <<Str("lentes")>>
  /\ ~validateCompletePPE(groupedDetections).isComplete

\* C23: completionRate is the share of the required classes that are
\* present, between nothing and the full rate, whatever other labels the
\* input holds.
C23_RateIsShareOfRequired ==
  LET v == validateCompletePPE(groupedDetections)
  IN /\ v.completionRate =
          (Cardinality(RequiredPresent) * 10000) \div Len(EPP_CLASSES)
     /\ v.completionRate \in 0..10000

\* C24: a detection whose label normalizes to no required class is dropped:
\* processing it adds no entry to the grouped detections.
C24_UnmappedLabelDropped ==
  [][ \A label \in Labels :
        (Normalize(label) \notin RequiredSet /\ ForEachDetection(label))
        => UNCHANGED groupedDetections ]_vars

\* C25: normalization is case-insensitive, idempotent, and the identity on
\* the required classes: once a label is normalized, any spelling of the
\* same label normalizes to the same class, normalizing the class again
\* returns it, and a required class is its own normalization.
C25_NormalizeIdempotent ==
  (className # NoLabel) =>
     /\ \A other \in Labels :
          other.text = det.text => Normalize(other) = Normalize(det)
     /\ Normalize(className) = className
     /\ det \in RequiredSet => className = det

\* C26: with exactly one required class absent, missing is that class, the
\* rate is (N-1)/N, the verdict is not compliant and the gate pauses.
C26_OneMissingClass ==
  LET v == validateCompletePPE(groupedDetections)
  IN \A i \in 1..Len(EPP_CLASSES) :
       RequiredAbsent = {EPP_CLASSES[i]}
       => /\ v.missing = <<EPP_CLASSES[i]>>
          /\ v.completionRate =
               ((Len(EPP_CLASSES) - 1) * 10000) \div Len(EPP_CLASSES)
          /\ ~v.isComplete
          /\ convertToLegacyFormat(v).is_compliant = "false"
          /\ PauseAfter(convertToLegacyFormat(v), FALSE)

(* ----------------- latency window and ladder: C29, C30 ---------------- *)
\* C29: the latency window never holds more than 10 samples, and after a
\* verdict that records its latency the window is the last 10 of the old
\* window followed by the new sample: below capacity the sample is
\* appended, at capacity the oldest sample leaves and the order is kept.
C29_WindowKeepsLastTen ==
  [][ /\ Len(latencyHistory') <= 10
      /\ lastVerdict' \in {"compliant", "violation"} =>
           \A k \in 1..Len(inflight), data \in Responses,
              latency \in Latencies :
             ( /\ lastVerdict' = Verdict(data)
               /\ ppeStatus' = data.ppe_status
               /\ hasDetection' = (data.has_person = "true")
               /\ HandleDetectionResponse(k, data, latency) )
             => /\ latencyHistory'[Len(latencyHistory')] = latency
                /\ IF Len(latencyHistory) < 10
                   THEN latencyHistory' = Append(latencyHistory, latency)
                   ELSE latencyHistory' =
                          Append(Tail(latencyHistory), latency) ]_vars

\* C29 happens: a verdict was just recorded into a full window that holds
\* both latencies, oldest first.
C29_Witness ==
  /\ lastVerdict \in {"compliant", "violation"}
  /\ Len(latencyHistory) = 10
  /\ latencyHistory[1] = 200
  /\ latencyHistory[10] = 600

\* C30: a successful open leaves the ladder where it is, and a non-manual
\* closure of a connection whose stability timer is still pending
\* schedules the reconnect with the step the ladder had reached and never
\* moves the ladder back.
C30_EarlyCloseKeepsLadder ==
  [][ /\ \A s \in SockIds :
           OnOpen(s) => UNCHANGED <<currentDelayIndex, reconnectAttempts>>
      /\ \A s \in SockIds, code \in CloseCodes :
           (NonManualClose(s, code) /\ socks[s] = "OPEN" /\ stableTimer)
           => /\ reconnTimers' # <<>>
              /\ reconnTimers'[Len(reconnTimers')] =
                   reconnectDelays[currentDelayIndex + 1]
              /\ currentDelayIndex' >= currentDelayIndex
              /\ reconnectAttempts' = reconnectAttempts + 1 ]_vars

\* C30 happens: the connection is open again after two failures, the
\* stability timer is pending and the ladder is still on its third step.
C30_Witness ==
  /\ WsIsConnected
  /\ stableTimer
  /\ currentDelayIndex = 2
  /\ reconnectAttempts = 2

(* ----------------- teardown and the capture loop: C21, C27, C28 ------- *)
\* C21: teardown cancels its timers: disconnect() (run by the unmount
\* cleanup) leaves neither the keepalive interval nor the stability timer
\* pending, stopDetection and the unmount leave no capture timer pending,
\* and once the Dashboard is unmounted no timer of the session fires any
\* more.
C21_TeardownCancelsTimers ==
  [][ /\ (Unmount /\ mounted = "mounted")
         => (~heartbeat' /\ ~stableTimer' /\ detTimers' = <<>>)
      /\ StopDetection => detTimers' = <<>>
      /\ mounted = "unmounted"
         => /\ ~(\E i \in 1..Len(reconnTimers), refused \in BOOLEAN :
                   ReconnectTimerFire(i, refused))
            /\ ~(\E i \in 1..Len(detTimers), image \in Images,
                    throws \in BOOLEAN :
                   DetectionTimerFire(i, image, throws)) ]_vars

\* C27: at most one detection request is outstanding at any time.
C27_OneRequestOutstanding == Len(inflight) <= 1

\* C28: while the session is Armed, a firing of the capture timer leaves
\* exactly one capture timer pending, set to the interval current at that
\* moment.
C28_TimerRearmedOnEveryFiring ==
  [][ \A i \in 1..Len(detTimers), image \in Images, throws \in BOOLEAN :
        (DetectionTimerFire(i, image, throws) /\ Armed)
        => /\ Len(detTimers') = 1
           /\ detTimers'[1].delay = adaptiveInterval ]_vars

(* ----------------- history and verdict effects: C31 .. C35 ------------ *)
\* a verdict with a subject present was handled by the step
VerdictCompleted == lastVerdict' \in {"compliant", "violation"}

\* C31: a completed verdict adds exactly one record to the history, in
\* first place: the new list is the record followed by the old records,
\* as many as the capacity allows.
C31_OneRecordPerVerdict ==
  [][ VerdictCompleted =>
        \A k \in 1..Len(inflight), data \in Responses, latency \in Latencies :
          ( /\ lastVerdict' = Verdict(data)
            /\ HandleDetectionResponse(k, data, latency) )
          => /\ Len(detectionRecords') =
                  Min(Len(detectionRecords) + 1, maxRecords)
             /\ detectionRecords'[1] = crearRegistroDesdeDeteccion(data)
             /\ \A j \in 2..Len(detectionRecords') :
                  detectionRecords'[j] = detectionRecords[j - 1] ]_vars

\* C32: the history never holds more than maxRecords records, whatever
\* localStorage held at the start, and a verdict keeps the old records
\* from the newest on, so those dropped are the oldest.
C32_HistoryBounded ==
  [][ /\ Len(detectionRecords) <= maxRecords
      /\ Len(detectionRecords') <= maxRecords
      /\ VerdictCompleted =>
           \E n \in 1..Len(detectionRecords') :
             /\ \A j \in 1..n : detectionRecords'[j] = detectionRecords'[1]
             /\ Len(detectionRecords') - n <= Len(detectionRecords)
             /\ SubSeq(detectionRecords', n + 1, Len(detectionRecords'))
                  = SubSeq(detectionRecords, 1, Len(detectionRecords') - n)
    ]_vars

\* C32 happens: the first verdict of a session that started with a full
\* history of three: the record is in front, the newest stored record is
\* kept behind it and the older ones are gone
C32_Witness ==
  /\ lastVerdict \in {"compliant", "violation"}
  /\ Len(latencyHistory) = 1
  /\ maxRecords = MaxRecords
  /\ Len(detectionRecords) = maxRecords
  /\ detectionRecords[maxRecords] # detectionRecords[1]

\* the part of the step that has_person false leaves alone
NoPersonFrame ==
  /\ UNCHANGED <<detectionRecords, latencyHistory, adaptiveInterval,
                 isPaused, isSafetyModalOpen, alertActive, cameraActive,
                 detTimers>>
  /\ ~isProcessing'

\* C33: a response with has_person false leaves the history, the latency
\* window, the interval, the pause flag, the modal, the alert and the
\* capture timers as they are and clears the in-flight flag; when it
\* carries a ppe_status it puts the displayed status back to neutral, and
\* when it does not the displayed status stays as it was.
C33_NoPersonIsNeutral ==
  [][ lastVerdict' # "none" =>
        \A k \in 1..Len(inflight), data \in Responses, latency \in Latencies :
          ( /\ data.has_person = "false"
            /\ lastVerdict' = Verdict(data)
            /\ HandleDetectionResponse(k, data, latency) )
          => /\ NoPersonFrame
             /\ IF data.ppe_status = "absent"
                THEN UNCHANGED <<ppeStatus, hasDetection>>
                ELSE ppeStatus' = "neutral" /\ ~hasDetection' ]_vars

\* C33 as stated: every response with has_person false, with or without a
\* ppe_status, puts the displayed status back to neutral.
C33_EveryNoPersonResetsDisplay ==
  [][ lastVerdict' # "none" =>
        \A k \in 1..Len(inflight), data \in Responses, latency \in Latencies :
          ( /\ data.has_person = "false"
            /\ lastVerdict' = Verdict(data)
            /\ HandleDetectionResponse(k, data, latency) )
          => /\ NoPersonFrame
             /\ ppeStatus' = "neutral"
             /\ ~hasDetection' ]_vars

\* C33 happens: an empty scene was reported after a verdict had been shown
\* and recorded; the display is neutral, the record and the sample remain.
C33_Witness ==
  /\ lastVerdict = "no-person"
  /\ ppeStatus = "neutral"
  /\ ~hasDetection
  /\ detectionRecords # <<>>
  /\ latencyHistory # <<>>
  /\ ~isProcessing

\* C34: a compliant verdict handled while Armed leaves the gate Armed,
\* leaves the capture timers as they are and resets the alert.
C34_CompliantStaysArmed ==
  [][ lastVerdict' = "compliant" =>
        \A k \in 1..Len(inflight), data \in Responses, latency \in Latencies :
          ( /\ Armed
            /\ ~IsInvalid(data) /\ ~HasNoPerson(data) /\ ~IsViolation(data)
            /\ HandleDetectionResponse(k, data, latency) )
          => /\ Armed'
             /\ UNCHANGED <<detTimers, detRef>>
             /\ ~alertActive' ]_vars

\* C34 happens: after a violation and a resume the alert was still set; a
\* compliant verdict reset it and the resumed loop's timer is pending.
C34_Witness ==
  /\ lastVerdict = "compliant"
  /\ Armed
  /\ ~alertActive
  /\ Len(detTimers) = 1
  /\ detTimers[1].chain = "resume"

\* a step of the transport: a socket event or one of its timers
TransportEvent ==
  \/ \E s \in SockIds : OnOpen(s) \/ OnError(s)
  \/ \E s \in SockIds, code \in CloseCodes : OnClose(s, code)
  \/ \E i \in 1..Len(reconnTimers), refused \in BOOLEAN :
       ReconnectTimerFire(i, refused)
  \/ StableTimerFire
  \/ \E throws \in BOOLEAN, refused \in BOOLEAN :
       HeartbeatFire(throws, refused)

\* C35: a transport event changes neither the pause flag, the latency
\* window nor the interval; the window and the interval change only when
\* a response arrives or on stop, the pause flag only on a verdict, on
\* resume or on stop.
C35_TransportLeavesSession ==
  [][ /\ TransportEvent
         => UNCHANGED <<isPaused, latencyHistory, adaptiveInterval>>
      /\ (latencyHistory' # latencyHistory \/ adaptiveInterval' # adaptiveInterval)
         => (VerdictCompleted \/ StopDetection)
      /\ isPaused' # isPaused
         => (lastVerdict' = "violation" \/ HandleResume \/ StopDetection) ]_vars

\* C35 happens: the socket closed and a reconnect is scheduled while the
\* gate is paused with a tier other than the default in force.
C35_Witness ==
  /\ isPaused
  /\ ~isConnected
  /\ reconnTimers # <<>>
  /\ Len(latencyHistory) >= 5
  /\ adaptiveInterval = 2500

(* ----------------- resume and alert failure: C39, C40 ----------------- *)
\* C39: handleResume re-arms the scheduler: after it a capture timer is
\* pending, whether or not the transport is connected at that moment.
C39_ResumeRearms ==
  [][ HandleResume => detTimers' # <<>> ]_vars

\* C40: when alertService.trigger throws on a violation, the gate is
\* paused all the same, the modal opens and no capture timer stays
\* pending.
C40_AlertFailureStillPauses ==
  [][ lastIO' = "alert-error"
      => (isPaused' /\ isSafetyModalOpen' /\ detTimers' = <<>>) ]_vars

\* C40 happens: the alert threw on a violation handled while Armed with a
\* capture timer pending; the gate is paused.
C40_Witness ==
  /\ lastIO = "alert-error"
  /\ lastVerdict = "violation"
  /\ isPaused /\ cameraActive
  /\ detTimers = <<>>

(* ----------------- aggregation output: C36, C37 ----------------------- *)
\* the place of a required class in EPP_CLASSES
IndexOf(cls) == CHOOSE n \in 1..Len(EPP_CLASSES) : EPP_CLASSES[n] = cls

\* C36: missing lists the absent required classes in the order of
\* EPP_CLASSES, so it depends only on which classes were detected, not on
\* the order or the number of the detections.
C36_MissingInCanonicalOrder ==
  LET missing == validateCompletePPE(groupedDetections).missing
  IN /\ \A i \in 1..Len(missing) : missing[i] \in RequiredAbsent
     /\ \A i, j \in 1..Len(missing) :
          i < j => IndexOf(missing[i]) < IndexOf(missing[j])

\* C36 happens: several classes are missing, among them the first and the
\* last of EPP_CLASSES, while detections of other classes were repeated.
C36_Witness ==
  LET missing == validateCompletePPE(groupedDetections).missing
  IN /\ Len(missing) >= 3
     /\ missing[1] = Str("barbijo")
     /\ missing[Len(missing)] = Str("pantalon")
     /\ \E c \in DOMAIN groupedDetections : groupedDetections[c] = 2

RECURSIVE SumCounts(_, _)
SumCounts(groups, keys) ==
  IF keys = {} THEN 0
  ELSE LET c == CHOOSE x \in keys : TRUE
       IN groups[c] + SumCounts(groups, keys \ {c})

\* C37: every class in the mapping has a count of at least 1, the number
\* of detections pushed into it; a class without a detection has no entry;
\* and the counts add up to the number of detections aggregated.
C37_CountsAddUp ==
  /\ \A c \in DOMAIN groupedDetections : groupedDetections[c] >= 1
  /\ SumCounts(groupedDetections, DOMAIN groupedDetections) = totalDetections

\* C37 happens: a class received two detections, under different labels
\* or the same, among at least three detections.
C37_Witness ==
  /\ Str("casco") \in DOMAIN groupedDetections
  /\ groupedDetections[Str("casco")] = 2
  /\ Str("person") \in DOMAIN groupedDetections
  /\ totalDetections >= 4

(* ----------------- one socket, one reconnect: C38 --------------------- *)
\* the sockets that are connecting or open
LiveSockets == {s \in SockIds : socks[s] \in {"CONNECTING", "OPEN"}}

\* C38: at any time at most one socket is connecting or open and at most
\* one reconnect timer is pending.
C38_OneSocketOneReconnect ==
  /\ Cardinality(LiveSockets) <= 1
  /\ Len(reconnTimers) <= 1

====
